---- MODULE Spec2Model ----
(***************************************************************************)
(* Model of src/app.py: an AWS Lambda handler that keeps configuration     *)
(* records in a DynamoDB table (the durable store) and mirrors them in a   *)
(* Valkey cache.  POST creates a record, GET reads one (cache first, then  *)
(* the table, repopulating the cache), PATCH updates fields of one.        *)
(*                                                                         *)
(* Several invocations run concurrently (one per process in Procs); each   *)
(* call to the table or to the cache is one step of the invocation that    *)
(* makes it.                                                               *)
(***************************************************************************)
EXTENDS Integers, Sequences, FiniteSets, TLC

\* ------------------------------------------------------------- bounds ----
\* Total number of invocations issued in one behaviour.
MaxRequests == 3
\* The Lambda execution environments: two invocations may be in flight at once.
Procs == {1, 2}

\* ------------------------------------------------------ Python values ----
\* A Python value is a pair <<type, payload>>.  A dict maps field names to
\* scalars (one level is enough for the top-level merge of PATCH).
Fields == {"a", "b"}
None == <<"None", "">>
PyStr(s) == <<"str", s>>
PyInt(n) == <<"int", n>>
PyDecimal(n) == <<"Decimal", n>>
PyDict(f) == <<"dict", f>>
IsDict(v) == v[1] = "dict"

\* Python truthiness, as used by `not config_key` / `not config_value`.
Truthy(v) ==
    CASE v[1] = "None" -> FALSE
      [] v[1] = "str" -> v[2] /= ""
      [] v[1] = "int" -> v[2] /= 0
      [] v[1] = "Decimal" -> v[2] /= 0
      [] v[1] = "dict" -> DOMAIN v[2] /= {}
      [] OTHER -> TRUE

\* Deep equality of Python values: Decimal(1) == 1 in Python.
Plain(s) == IF s[1] = "Decimal" THEN PyInt(s[2]) ELSE s
PlainValue(v) ==
    IF IsDict(v) THEN PyDict([k \in DOMAIN v[2] |-> Plain(v[2][k])]) ELSE Plain(v)
PyEqual(x, y) == PlainValue(x) = PlainValue(y)

\* ------------------------------------------------------------- json ------
\* JSON text is modelled by the JSON value it denotes; NotJson is a text that
\* is not valid JSON.  json.dumps raises TypeError on a Decimal.
TypeError == <<"raise", "TypeError">>
NotJson == <<"text", "not json">>
DumpsScalarOk(s) == s[1] \in {"None", "str", "int"}
DumpsScalar(s) ==
    CASE s[1] = "None" -> <<"null", "">>
      [] s[1] = "str" -> <<"string", s[2]>>
      [] s[1] = "int" -> <<"number", s[2]>>
json_dumps(v) ==
    IF IsDict(v)
    THEN IF \A k \in DOMAIN v[2] : DumpsScalarOk(v[2][k])
         THEN <<"object", [k \in DOMAIN v[2] |-> DumpsScalar(v[2][k])]>>
         ELSE TypeError
    ELSE IF DumpsScalarOk(v) THEN DumpsScalar(v) ELSE TypeError
LoadsScalar(j) ==
    CASE j[1] = "null" -> None
      [] j[1] = "string" -> PyStr(j[2])
      [] j[1] = "number" -> PyInt(j[2])
\* json.loads of a valid JSON text (the caller handles NotJson).
json_loads(j) ==
    IF j[1] = "object"
    THEN PyDict([k \in DOMAIN j[2] |-> LoadsScalar(j[2][k])])
    ELSE LoadsScalar(j)

\* ---------------------------------------------------------- DynamoDB -----
\* boto3's resource layer stores Python values as DynamoDB attribute values
\* and reads every number back as a decimal.Decimal.
ToAttr(s) ==
    CASE s[1] = "None" -> <<"NULL", "">>
      [] s[1] = "str" -> <<"S", s[2]>>
      [] s[1] = "int" -> <<"N", s[2]>>
      [] s[1] = "Decimal" -> <<"N", s[2]>>
FromAttr(a) ==
    CASE a[1] = "NULL" -> None
      [] a[1] = "S" -> PyStr(a[2])
      [] a[1] = "N" -> PyDecimal(a[2])
Serialize(v) ==
    IF IsDict(v) THEN <<"M", [k \in DOMAIN v[2] |-> ToAttr(v[2][k])]>> ELSE ToAttr(v)
Deserialize(a) ==
    IF a[1] = "M" THEN PyDict([k \in DOMAIN a[2] |-> FromAttr(a[2][k])]) ELSE FromAttr(a)
NoItem == <<"NoItem", "">>

\* -------------------------------------------------------------- events ---
\* The API Gateway events the handler is invoked with.  The body of a POST or
\* PATCH is absent, null, a text that is not JSON, a JSON text that is not an
\* object, or a JSON object with config_key / config_value (None: not given).
Keys == {"k1"}
V_ab == PyDict([k \in {"a", "b"} |-> IF k = "a" THEN PyInt(1) ELSE PyInt(2)])
V_x == PyDict([k \in {"a"} |-> PyStr("x")])
P_b == PyDict([k \in {"b"} |-> PyInt(3)])
P_a == PyDict([k \in {"a"} |-> PyStr("y")])
EmptyDict == PyDict([k \in {} |-> None])
\* config_value of a POST body and of a PATCH body.
PostValues == {V_ab, V_x, EmptyDict, None}
PatchValues == {P_b, P_a, EmptyDict, PyStr("s"), None}
BodyAbsent == <<"absent", "">>
BodyNull == <<"null", "">>
BodyNotObject == <<"string", "s">>
BodyObject(k, v) == <<"object", [config_key |-> k, config_value |-> v]>>
Bodies(values) ==
    {BodyAbsent, BodyNull, NotJson, BodyNotObject}
        \cup {BodyObject(PyStr(k), v) : k \in Keys, v \in values}
        \cup {BodyObject(k, V_x) : k \in {PyStr(""), None}}
\* queryStringParameters: absent, null, or a map that may hold config_key or key.
QsAbsent == <<"absent", "">>
QsNull == <<"null", "">>
QsMap(ck, k) == <<"map", [config_key |-> ck, key |-> k]>>
QueryStrings ==
    {QsAbsent, QsNull, QsMap(None, None)}
        \cup {QsMap(PyStr(k), None) : k \in Keys}
        \cup {QsMap(None, PyStr(k)) : k \in Keys}
Events ==
    {[httpMethod |-> "POST", body |-> b, queryStringParameters |-> QsAbsent] :
        b \in Bodies(PostValues)}
        \cup {[httpMethod |-> "PATCH", body |-> b, queryStringParameters |-> QsAbsent] :
                b \in Bodies(PatchValues)}
        \cup {[httpMethod |-> "GET", body |-> BodyAbsent, queryStringParameters |-> q] :
                q \in QueryStrings}
        \cup {[httpMethod |-> "DELETE", body |-> BodyAbsent,
               queryStringParameters |-> QsAbsent]}

\* ----------------------------------------------------------- responses ---
NoResponse ==
    [statusCode |-> 0, error |-> "", message |-> "", value |-> None, source |-> "",
     in_dynamodb |-> FALSE, in_valkey |-> FALSE]
ErrorResponse(code, msg) == [NoResponse EXCEPT !.statusCode = code, !.error = msg]
\* lambda_handler's two except clauses, for an exception that escapes a handler.
Unhandled(exc) ==
    IF exc = "JSONDecodeError"
    THEN ErrorResponse(400, "Invalid JSON format")
    ELSE ErrorResponse(500, "Internal server error")

\* --------------------------------------------------------------- state ---
VARIABLES
    table,          \* DynamoDB config_table: key -> stored 'value' attribute or NoItem
    valkey,         \* Valkey: key -> stored JSON text or NoEntry
    valkeyAnswers,  \* FALSE: the cache no longer answers a connect, get, set or close
    issued,         \* number of invocations issued so far
    pc,             \* per invocation: the call it is about to make
    req,            \* per invocation: httpMethod, config_key, config_value
    call,           \* per invocation: frame of store_to_valkey / get_from_valkey
    item,           \* per invocation: item read from the table
    connection,     \* per invocation: the Valkey client its helper created
    resp,           \* per invocation: the response returned
    log,            \* per invocation: what it has done so far (history)
    since,          \* per key: table values held since the last cache write (history)
    expected,       \* per key: the record as created, and as merged by the Updates
                    \*   served since (top-level merge of each patch) (history)
    conflict,       \* per key: a Create was refused with 409 (history)
    concurrent      \* two requests have been in flight at the same time (history)

vars ==
    <<table, valkey, valkeyAnswers, issued, pc, req, call, item, connection, resp, log,
      since, expected, conflict, concurrent>>

NoEntry == <<"NoEntry", "">>
NoRequest == [method |-> "", config_key |-> "", config_value |-> None]
\* helper: "store" (store_to_valkey), "get" (get_from_valkey) or "" (none);
\* client: the frame holds a connected client; pending: the return value or the
\* exception the helper's finally block is about to let through.
NoCall == [helper |-> "", value |-> None, client |-> FALSE, pending |-> <<"", "">>]
\* open: the client is connected and client.close() has not been called on it;
\* commands: the number of commands (set, get) sent over it.
NoClient == [open |-> FALSE, commands |-> 0]
NoLog ==
    [durableOk |-> FALSE,    \* the durable write returned success
     durableFail |-> FALSE,  \* the durable write was refused or failed
     cacheIssued |-> FALSE,  \* a cache operation was issued (a connect)
     cacheGot |-> "",        \* get_from_valkey returned: "absent" / "value"
     setOutcome |-> "",      \* last store_to_valkey: "True" / "False" / "raised"
     setAcked |-> FALSE,     \* the server answered the request's client.set
     cacheMiss |-> FALSE,    \* the server answered the request's client.get: no entry
     tableGet |-> FALSE,     \* table.get_item was called
     tableError |-> FALSE,   \* a call to the table failed (ClientError)
     existed |-> FALSE,      \* the key had a record when the request was issued
     malformed |-> FALSE,    \* the event lacked a required input (see Malformed)
     outage |-> FALSE]       \* the cache had stopped answering when it was issued

TypeOK ==
    /\ DOMAIN table = Keys
    /\ DOMAIN valkey = Keys
    /\ valkeyAnswers \in BOOLEAN
    /\ issued \in 0..MaxRequests
    /\ pc \in [Procs -> {"idle", "put_item", "update_item", "get_item", "create_client",
                         "client_set", "client_get", "close", "done"}]

Init ==
    /\ table = [k \in Keys |-> NoItem]
    /\ valkey = [k \in Keys |-> NoEntry]
    /\ valkeyAnswers = TRUE
    /\ issued = 0
    /\ pc = [p \in Procs |-> "idle"]
    /\ req = [p \in Procs |-> NoRequest]
    /\ call = [p \in Procs |-> NoCall]
    /\ item = [p \in Procs |-> NoItem]
    /\ connection = [p \in Procs |-> NoClient]
    /\ resp = [p \in Procs |-> NoResponse]
    /\ log = [p \in Procs |-> NoLog]
    /\ since = [k \in Keys |-> {NoItem}]
    /\ expected = [k \in Keys |-> [created |-> NoItem, merged |-> NoItem]]
    /\ conflict = [k \in Keys |-> FALSE]
    /\ concurrent = FALSE

InFlight(p) == pc[p] \notin {"idle", "done"}

\* ------------------------------------------------- handlers: first part ---
\* What a handler does before its first call to the table or the cache: a
\* response, an exception that escapes to lambda_handler, or the first call.
Respond(r) == [kind |-> "respond", resp |-> r, next |-> "done", request |-> NoRequest]
Raise(exc) == Respond(Unhandled(exc))
Proceed(next, m, k, v) ==
    [kind |-> "proceed", resp |-> NoResponse, next |-> next,
     request |-> [method |-> m, config_key |-> k, config_value |-> v]]

\* json.loads(event.get("body", "{}")) followed by the two body.get calls.
handle_post(event) ==
    LET b == event.body IN
    CASE b = BodyNull -> Raise("TypeError")
      [] b = NotJson -> Respond(ErrorResponse(400, "Invalid JSON body"))
      [] b = BodyNotObject -> Raise("AttributeError")
      [] b = BodyAbsent ->
            Respond(ErrorResponse(400, "config_key and config_value are required"))
      [] OTHER ->
            LET config_key == b[2].config_key
                config_value == b[2].config_value
            IN  IF ~Truthy(config_key) \/ ~Truthy(config_value)
                THEN Respond(ErrorResponse(400, "config_key and config_value are required"))
                ELSE Proceed("put_item", "POST", config_key[2], config_value)

\* Mutant: handle_get reading the table before the cache.
handle_get_table_first(event) ==
    LET params == event.queryStringParameters IN
    CASE params = QsNull -> Raise("AttributeError")
      [] params = QsAbsent -> Respond(ErrorResponse(400, "Missing config_key parameter"))
      [] OTHER ->
            LET config_key ==
                    IF Truthy(params[2].config_key)
                    THEN params[2].config_key
                    ELSE params[2].key
            IN  IF ~Truthy(config_key)
                THEN Respond(ErrorResponse(400, "Missing config_key parameter"))
                ELSE Proceed("get_item", "GET", config_key[2], None)

handle_get(event) ==
    LET params == event.queryStringParameters IN
    CASE params = QsNull -> Raise("AttributeError")
      [] params = QsAbsent -> Respond(ErrorResponse(400, "Missing config_key parameter"))
      [] OTHER ->
            LET config_key ==
                    IF Truthy(params[2].config_key)
                    THEN params[2].config_key
                    ELSE params[2].key
            IN  IF ~Truthy(config_key)
                THEN Respond(ErrorResponse(400, "Missing config_key parameter"))
                ELSE Proceed("create_client", "GET", config_key[2], None)

handle_patch(event) ==
    LET b == event.body IN
    CASE b = BodyNull -> Raise("TypeError")
      [] b = NotJson -> Respond(ErrorResponse(400, "Invalid JSON body"))
      [] b = BodyNotObject -> Raise("AttributeError")
      [] b = BodyAbsent ->
            Respond(ErrorResponse(400, "config_key and config_value (object) are required"))
      [] OTHER ->
            LET config_key == b[2].config_key
                updated_values == b[2].config_value
            IN  IF ~Truthy(config_key) \/ ~IsDict(updated_values)
                THEN Respond(ErrorResponse(400,
                                "config_key and config_value (object) are required"))
                ELSE Proceed("update_item", "PATCH", config_key[2], updated_values)

lambda_handler(event) ==
    CASE event.httpMethod = "POST" -> handle_post(event)
      [] event.httpMethod = "GET" -> handle_get(event)
      [] event.httpMethod = "PATCH" -> handle_patch(event)
      [] OTHER -> Respond(ErrorResponse(405, "Method not allowed"))

\* The events with missing or malformed input: a body that is not JSON, a POST
\* without config_key or config_value, a PATCH without config_key or whose
\* config_value is not a mapping, a GET without config_key (or key).
Malformed(event) ==
    IF event.httpMethod \in {"POST", "PATCH"}
    THEN \/ event.body \in {NotJson, BodyAbsent}
         \/ /\ event.body[1] = "object"
            /\ \/ event.body[2].config_key \in {None, PyStr("")}
               \/ event.httpMethod = "POST" /\ event.body[2].config_value = None
               \/ event.httpMethod = "PATCH" /\ ~IsDict(event.body[2].config_value)
    ELSE /\ event.httpMethod = "GET"
         /\ \/ event.queryStringParameters \in {QsAbsent, QsNull}
            \/ /\ event.queryStringParameters[1] = "map"
               /\ event.queryStringParameters[2].config_key = None
               /\ event.queryStringParameters[2].key = None

\* ------------------------------------------------------------ Invoke -----
\* A new invocation of lambda_handler with some event, on a free process (the
\* processes are interchangeable: the first free one takes it).
Invoke(p) ==
    /\ pc[p] \in {"idle", "done"}
    /\ \A q \in Procs : q < p => InFlight(q)
    /\ issued < MaxRequests
    /\ issued' = issued + 1
    /\ \E event \in Events :
          LET h == lambda_handler(event)
              k == h.request.config_key
              busy == \E q \in Procs \ {p} : InFlight(q)
          IN  /\ pc' = [pc EXCEPT ![p] = h.next]
              /\ req' = [req EXCEPT ![p] = h.request]
              /\ resp' = [resp EXCEPT ![p] = h.resp]
              /\ call' = [call EXCEPT ![p] =
                            IF h.next = "create_client"
                            THEN [NoCall EXCEPT !.helper = "get"]
                            ELSE NoCall]
              /\ log' = [log EXCEPT ![p] =
                            [NoLog EXCEPT
                                !.existed = (h.kind = "proceed" /\ table[k] /= NoItem),
                                !.malformed = Malformed(event),
                                !.outage = (h.kind = "proceed" /\ ~valkeyAnswers)]]
              /\ concurrent' = (concurrent \/ (h.kind = "proceed" /\ busy))
    /\ item' = [item EXCEPT ![p] = NoItem]
    /\ connection' = [connection EXCEPT ![p] = NoClient]
    /\ UNCHANGED <<table, valkey, valkeyAnswers, since, expected, conflict>>

\* ----------------------------------------------- calling the cache helpers ---
\* The frame of a call of store_to_valkey(config_key, config_value).
StoreCall(v) == [NoCall EXCEPT !.helper = "store", !.value = v]

\* Mutant: the cache flag of the response set to True whatever the Set did.
WriteResponseFlagAlways(m, success) ==
    [NoResponse EXCEPT
        !.statusCode = IF success THEN 200 ELSE 207,
        !.message = IF m = "POST" THEN "Stored successfully" ELSE "Updated successfully",
        !.in_dynamodb = TRUE,
        !.in_valkey = TRUE]
\* store_to_valkey returned `success` to handle_post / handle_patch.
WriteResponse(m, success) ==
    [NoResponse EXCEPT
        !.statusCode = IF success THEN 200 ELSE 207,
        !.message =
            IF m = "POST"
            THEN IF success THEN "Stored successfully"
                 ELSE "Stored in DynamoDB but failed in Valkey"
            ELSE IF success THEN "Updated successfully"
                 ELSE "Updated in DynamoDB but failed in Valkey",
        !.in_dynamodb = TRUE,
        !.in_valkey = success]

\* The response of handle_get for an item found in the table: json.dumps of the
\* body raises TypeError on a Decimal, inside the try block of the fallback.
DynamoResponse(value) ==
    IF json_dumps(value) = TypeError
    THEN ErrorResponse(500, "Failed to retrieve item")
    ELSE [NoResponse EXCEPT !.statusCode = 200, !.value = value, !.source = "dynamodb"]

ValkeyResponse(value) ==
    [NoResponse EXCEPT !.statusCode = 200, !.value = value, !.source = "valkey"]

\* What the handler does once a cache helper has returned (<<"return", x>>) or
\* raised (<<"raise", exc>>): the next call, or the response.
\*   next is "done" (with resp) or "get_item".
AfterHelper(m, helper, outcome, it) ==
    CASE helper = "get" ->
            IF outcome[1] = "raise"
            THEN [next |-> "done", resp |-> Unhandled(outcome[2])]
            ELSE IF outcome[2] = None
                 THEN [next |-> "get_item", resp |-> NoResponse]
                 ELSE [next |-> "done", resp |-> ValkeyResponse(outcome[2])]
      [] helper = "store" /\ m = "GET" ->
            IF outcome[1] = "raise"
            THEN [next |-> "done", resp |-> ErrorResponse(500, "Failed to retrieve item")]
            ELSE [next |-> "done", resp |-> DynamoResponse(Deserialize(it))]
      [] OTHER ->
            IF outcome[1] = "raise"
            THEN [next |-> "done", resp |-> Unhandled(outcome[2])]
            ELSE [next |-> "done", resp |-> WriteResponse(m, outcome[2])]

\* ------------------------------------------------------ cache helpers ----
\* The exception classes the source imports from glide (lines 15-18).  Every
\* except clause of the source that names TimeoutError or ConnectionError names
\* RequestError too, so RequestError stands for the three.
GlideExceptions == {"RequestError", "ClosingError"}
\* except clauses of create_valkey_client / store_to_valkey (lines 49, 78),
\* of get_from_valkey (line 103) and of close_valkey_client (line 58).
CaughtOnConnect == {"RequestError", "asyncio.TimeoutError"}
CaughtOnSet == {"RequestError", "asyncio.TimeoutError"}
CaughtOnGet ==
    {"RequestError", "JSONDecodeError", "asyncio.TimeoutError"}
CaughtOnClose == {"ClosingError", "asyncio.TimeoutError"}

\* Mutant: the cache call awaited without wait_for, so without a deadline.
WaitForNoDeadline(answers) == IF answers THEN {"ok"} \cup GlideExceptions ELSE {}
\* Outcomes of `await asyncio.wait_for(<cache call>, timeout=...)`: the call
\* answers ("ok") or raises, or the deadline passes first.  A cache that never
\* answers leaves the deadline as the only outcome.
WaitFor(answers) ==
    IF answers
    THEN {"ok", "asyncio.TimeoutError"} \cup GlideExceptions
    ELSE {"asyncio.TimeoutError"}

\* The history kept when a helper hands `outcome` back to its handler.
Note(lg, helper, outcome) ==
    IF helper = "get"
    THEN [lg EXCEPT !.cacheGot =
                CASE outcome[1] = "raise" -> "raised"
                  [] outcome[2] = None -> "absent"
                  [] OTHER -> "value"]
    ELSE [lg EXCEPT !.setOutcome =
                CASE outcome[1] = "raise" -> "raised"
                  [] outcome[2] -> "True"
                  [] OTHER -> "False"]

\* The helper of invocation p ends with `outcome`; its handler continues.
Finish(p, outcome, lg) ==
    LET a == AfterHelper(req[p].method, call[p].helper, outcome, item[p])
    IN  /\ pc' = [pc EXCEPT ![p] = a.next]
        /\ resp' = [resp EXCEPT ![p] = a.resp]
        /\ call' = [call EXCEPT ![p] = NoCall]
        /\ log' = [log EXCEPT ![p] = Note(lg, call[p].helper, outcome)]

\* The value a helper returns when one of its caught exceptions was raised.
Failed(helper) == IF helper = "get" THEN <<"return", None>> ELSE <<"return", FALSE>>

\* create_valkey_client(), awaited first by both helpers (lines 66, 88).  With a
\* client, store_to_valkey goes on to json.dumps(config_value) (line 70).
CreateValkeyClient(p) ==
    /\ pc[p] = "create_client"
    /\ \E o \in WaitFor(valkeyAnswers) :
          LET lg == [log[p] EXCEPT !.cacheIssued = TRUE]
              h == call[p].helper
          IN  /\ CASE o = "ok" /\ h = "store" /\ json_dumps(call[p].value) = TypeError ->
                    /\ pc' = [pc EXCEPT ![p] = "close"]
                    /\ call' = [call EXCEPT ![p].client = TRUE,
                                            ![p].pending = TypeError]
                    /\ log' = [log EXCEPT ![p] = lg]
                    /\ UNCHANGED resp
                [] o = "ok" /\ h = "store" /\ json_dumps(call[p].value) /= TypeError ->
                    /\ pc' = [pc EXCEPT ![p] = "client_set"]
                    /\ call' = [call EXCEPT ![p].client = TRUE]
                    /\ log' = [log EXCEPT ![p] = lg]
                    /\ UNCHANGED resp
                [] o = "ok" /\ h = "get" ->
                    /\ pc' = [pc EXCEPT ![p] = "client_get"]
                    /\ call' = [call EXCEPT ![p].client = TRUE]
                    /\ log' = [log EXCEPT ![p] = lg]
                    /\ UNCHANGED resp
                [] o /= "ok" /\ o \in CaughtOnConnect -> Finish(p, Failed(h), lg)
                [] OTHER -> Finish(p, <<"raise", o>>, lg)
              /\ connection' =
                    IF o = "ok"
                    THEN [connection EXCEPT ![p] = [open |-> TRUE, commands |-> 0]]
                    ELSE connection
    /\ UNCHANGED <<table, valkey, valkeyAnswers, issued, req, item, since, expected, conflict,
                   concurrent>>

\* await wait_for(client.set(config_key, value_str)) (lines 71-80).  When the
\* deadline passes the command may or may not have reached the server.
ClientSet(p) ==
    /\ pc[p] = "client_set"
    /\ \E o \in WaitFor(valkeyAnswers), applied \in BOOLEAN :
          /\ (o = "ok") => applied
          /\ (o \in GlideExceptions) => ~applied
          /\ ~valkeyAnswers => ~applied
          /\ valkey' = IF applied
                       THEN [valkey EXCEPT ![req[p].config_key] = json_dumps(call[p].value)]
                       ELSE valkey
          /\ since' = IF applied
                      THEN [since EXCEPT ![req[p].config_key] = {table[req[p].config_key]}]
                      ELSE since
          /\ log' = [log EXCEPT ![p].setAcked = (o = "ok")]
          /\ call' = [call EXCEPT ![p].pending =
                        CASE o = "ok" -> <<"return", TRUE>>
                          [] o \in CaughtOnSet -> <<"return", FALSE>>
                          [] OTHER -> <<"raise", o>>]
    /\ pc' = [pc EXCEPT ![p] = "close"]
    /\ connection' = [connection EXCEPT ![p].commands = @ + 1]
    /\ UNCHANGED <<table, valkeyAnswers, issued, req, item, resp, expected, conflict,
                   concurrent>>

\* await wait_for(client.get(config_key)), then decode and json.loads
\* (lines 92-105).
ClientGet(p) ==
    /\ pc[p] = "client_get"
    /\ \E o \in WaitFor(valkeyAnswers) :
          LET value == valkey[req[p].config_key]
          IN  /\ call' = [call EXCEPT ![p].pending =
                            CASE o = "ok" /\ value = NoEntry -> <<"return", None>>
                              [] o = "ok" /\ value = NotJson -> Failed("get")
                              [] o = "ok" -> <<"return", json_loads(value)>>
                              [] o \in CaughtOnGet -> Failed("get")
                              [] OTHER -> <<"raise", o>>]
              /\ log' = [log EXCEPT ![p].cacheMiss = (o = "ok" /\ value = NoEntry)]
    /\ pc' = [pc EXCEPT ![p] = "close"]
    /\ connection' = [connection EXCEPT ![p].commands = @ + 1]
    /\ UNCHANGED <<table, valkey, valkeyAnswers, issued, req, item, resp, since,
                   expected, conflict, concurrent>>

\* Mutant: close_valkey_client with its test inverted (`if not client`).
close_valkey_client_skipped(client) == client
\* close_valkey_client(client) (lines 53-59): client.close() is called on a
\* client that is not None; however the call ends (return, exception, deadline)
\* the client has been closed and takes no further command, and the helper
\* that held it returns.
close_valkey_client(client) == IF client.open THEN NoClient ELSE client

\* finally: await close_valkey_client(client) (lines 82, 107).  An exception
\* the close does not catch replaces what the helper was returning.
CloseValkeyClient(p) ==
    /\ pc[p] = "close"
    /\ connection' = [connection EXCEPT ![p] = close_valkey_client(@)]
    /\ \E o \in WaitFor(valkeyAnswers) :
          IF o = "ok" \/ o \in CaughtOnClose
          THEN Finish(p, call[p].pending, log[p])
          ELSE Finish(p, <<"raise", o>>, log[p])
    /\ UNCHANGED <<table, valkey, valkeyAnswers, issued, req, item, since, expected, conflict,
                   concurrent>>

\* --------------------------------------------------------- table calls ---
\* A call to DynamoDB either is served or fails (throttling, transport).
TableOutcomes == {"served", "ClientError"}

\* Mutant: put_item without its condition (Create as an upsert).
attribute_not_exists_dropped(k) == TRUE
\* ConditionExpression="attribute_not_exists(#key)" of put_item (line 166).
attribute_not_exists(k) == table[k] = NoItem
\* ConditionExpression="attribute_exists(#key)" of update_item (line 293).
attribute_exists(k) == table[k] /= NoItem

\* table.put_item of handle_post (lines 163-179), then the call of
\* store_to_valkey(config_key, config_value) (line 182).
PutItem(p) ==
    /\ pc[p] = "put_item"
    /\ \E o \in TableOutcomes :
          LET k == req[p].config_key
              v == req[p].config_value
          IN  CASE o = "ClientError" ->
                    /\ resp' = [resp EXCEPT ![p] =
                                    ErrorResponse(500, "Failed to store in DynamoDB")]
                    /\ pc' = [pc EXCEPT ![p] = "done"]
                    /\ log' = [log EXCEPT ![p].durableFail = TRUE, ![p].tableError = TRUE]
                    /\ UNCHANGED <<table, since, call, expected, conflict>>
                [] o = "served" /\ ~attribute_not_exists(k) ->
                    /\ resp' = [resp EXCEPT ![p] = ErrorResponse(409, "Item already exists")]
                    /\ pc' = [pc EXCEPT ![p] = "done"]
                    /\ log' = [log EXCEPT ![p].durableFail = TRUE]
                    /\ conflict' = [conflict EXCEPT ![k] = TRUE]
                    /\ UNCHANGED <<table, since, call, expected>>
                [] OTHER ->
                    /\ table' = [table EXCEPT ![k] = Serialize(v)]
                    /\ since' = [since EXCEPT ![k] = @ \cup {Serialize(v)}]
                    /\ expected' = [expected EXCEPT ![k] =
                                        [created |-> Serialize(v), merged |-> Serialize(v)]]
                    /\ call' = [call EXCEPT ![p] = StoreCall(v)]
                    /\ pc' = [pc EXCEPT ![p] = "create_client"]
                    /\ log' = [log EXCEPT ![p].durableOk = TRUE]
                    /\ UNCHANGED <<resp, conflict>>
    /\ UNCHANGED <<valkey, valkeyAnswers, issued, req, item, connection, concurrent>>

\* The update_item call of handle_patch (lines 276-295).  The UpdateExpression
\* is "SET #v.<k> = :val<i>, ..." for the fields of the patch ("SET" alone when
\* the patch is empty) and the ConditionExpression names #key, so the request
\* uses these name placeholders:
PlaceholdersUsed(updated_values) ==
    (IF DOMAIN updated_values[2] = {} THEN {} ELSE {"#v"}) \cup {"#key"}
\* The call gives the keyword ExpressionAttributeNames twice (lines 291 and
\* 294): {"#v": "value"} and {"#key": "key"}.  Python refuses to compile a call
\* with a repeated keyword; read as a call, it passes one of the two maps.
ExpressionAttributeNames == {{"#v"}, {"#key"}}
\* DynamoDB rejects (ValidationException) an empty SET clause, a placeholder
\* that is used but not defined or defined but not used, and a document path
\* #v.<k> into a 'value' attribute that is not a map.
RequestValid(names, updated_values, stored) ==
    /\ DOMAIN updated_values[2] /= {}
    /\ names = PlaceholdersUsed(updated_values)
    /\ stored /= NoItem => stored[1] = "M"
\* SET #v.k = :val for every field k of the patch: the top-level merge.
Merge(stored, updated_values) ==
    <<"M", [k \in DOMAIN stored[2] \cup DOMAIN updated_values[2] |->
                IF k \in DOMAIN updated_values[2]
                THEN ToAttr(updated_values[2][k])
                ELSE stored[2][k]]>>

UpdateItem(p) ==
    /\ pc[p] = "update_item"
    /\ \E o \in TableOutcomes, names \in ExpressionAttributeNames :
          LET k == req[p].config_key
              updated_values == req[p].config_value
          IN  /\ expected' =
                    IF o = "served" /\ expected[k].merged /= NoItem
                    THEN [expected EXCEPT ![k].merged = Merge(@, updated_values)]
                    ELSE expected
              /\ CASE o = "ClientError" \/ ~RequestValid(names, updated_values, table[k]) ->
                    /\ resp' = [resp EXCEPT ![p] =
                                    ErrorResponse(500, "Failed to update in DynamoDB")]
                    /\ pc' = [pc EXCEPT ![p] = "done"]
                    /\ log' = [log EXCEPT ![p].durableFail = TRUE,
                                          ![p].tableError = (o = "ClientError")]
                    /\ UNCHANGED <<table, since>>
                [] o = "served" /\ RequestValid(names, updated_values, table[k])
                       /\ ~attribute_exists(k) ->
                    /\ resp' = [resp EXCEPT ![p] = ErrorResponse(404, "Item not found")]
                    /\ pc' = [pc EXCEPT ![p] = "done"]
                    /\ log' = [log EXCEPT ![p].durableFail = TRUE]
                    /\ UNCHANGED <<table, since>>
                [] OTHER ->
                    /\ table' = [table EXCEPT ![k] = Merge(@, updated_values)]
                    /\ since' = [since EXCEPT ![k] = @ \cup {Merge(table[k], updated_values)}]
                    /\ pc' = [pc EXCEPT ![p] = "get_item"]
                    /\ log' = [log EXCEPT ![p].durableOk = TRUE]
                    /\ UNCHANGED resp
    /\ UNCHANGED <<valkey, valkeyAnswers, issued, req, call, item, connection, conflict,
                   concurrent>>

\* table.get_item: the fallback of handle_get (lines 225-253) and the read-back
\* of handle_patch (lines 309-317); then the call of store_to_valkey.
GetItem(p) ==
    /\ pc[p] = "get_item"
    /\ \E o \in TableOutcomes :
          LET k == req[p].config_key
              m == req[p].method
              failure ==
                  IF m = "GET" THEN "Failed to retrieve item"
                  ELSE "Failed to retrieve current value"
          IN  /\ log' = [log EXCEPT ![p].tableGet = TRUE,
                                    ![p].tableError = (o = "ClientError")]
              /\ CASE o = "ClientError" \/ (m = "PATCH" /\ table[k] = NoItem) ->
                    /\ resp' = [resp EXCEPT ![p] = ErrorResponse(500, failure)]
                    /\ pc' = [pc EXCEPT ![p] = "done"]
                    /\ UNCHANGED <<item, call>>
                [] o = "served" /\ m = "GET" /\ table[k] = NoItem ->
                    /\ resp' = [resp EXCEPT ![p] = ErrorResponse(404, "Item not found")]
                    /\ pc' = [pc EXCEPT ![p] = "done"]
                    /\ UNCHANGED <<item, call>>
                [] OTHER ->
                    /\ item' = [item EXCEPT ![p] = table[k]]
                    /\ call' = [call EXCEPT ![p] = StoreCall(Deserialize(table[k]))]
                    /\ pc' = [pc EXCEPT ![p] = "create_client"]
                    /\ UNCHANGED resp
    /\ UNCHANGED <<table, valkey, valkeyAnswers, issued, req, connection, since, expected,
                   conflict, concurrent>>

\* The environment: from some moment on the cache answers nothing any more.
ValkeyOutage ==
    /\ valkeyAnswers
    /\ valkeyAnswers' = FALSE
    /\ UNCHANGED <<table, valkey, issued, pc, req, call, item, connection, resp, log, since,
                   expected, conflict, concurrent>>

\* ---------------------------------------------------------------- Next ---
Next ==
    \/ ValkeyOutage
    \/ \E p \in Procs :
          \/ Invoke(p)
          \/ PutItem(p)
          \/ UpdateItem(p)
          \/ GetItem(p)
          \/ CreateValkeyClient(p)
          \/ ClientSet(p)
          \/ ClientGet(p)
          \/ CloseValkeyClient(p)

Spec == Init /\ [][Next]_vars

\* asyncio's run_until_complete drives a started coroutine until it returns and
\* boto3 calls return: an invocation that can take a step eventually takes one.
Step(p) ==
    \/ PutItem(p)
    \/ UpdateItem(p)
    \/ GetItem(p)
    \/ CreateValkeyClient(p)
    \/ ClientSet(p)
    \/ ClientGet(p)
    \/ CloseValkeyClient(p)
LiveSpec == Init /\ [][Next]_vars /\ \A p \in Procs : WF_vars(Step(p))

\* ================================================================ claims ==
Done(p, m) == pc[p] = "done" /\ req[p].method = m
\* No two requests have overlapped so far, and every call that request p made
\* to the table was served.
Sequential(p) == ~concurrent /\ ~log[p].tableError
\* The value held by the cache entry of key k.
Cached(k) == json_loads(valkey[k])

C2_CacheRepresentsDurable ==
    \A k \in Keys :
        valkey[k] /= NoEntry =>
            /\ valkey[k] /= NotJson
            /\ \E a \in since[k] \ {NoItem} : PyEqual(Cached(k), Deserialize(a))
\* A read that overlapped another request has repopulated the cache.
C2_Witness ==
    \E p \in Procs :
        /\ Done(p, "GET")
        /\ concurrent
        /\ log[p].setOutcome = "True"
        /\ valkey[req[p].config_key] /= NoEntry

C4_RoundTrip ==
    \A p \in Procs :
        (/\ Done(p, "GET")
         /\ Sequential(p)
         /\ log[p].existed
         /\ \/ log[p].cacheGot = "value"
            \/ log[p].cacheGot = "absent" /\ log[p].setOutcome = "False")
        => /\ resp[p].statusCode = 200
           /\ PyEqual(resp[p].value, Deserialize(expected[req[p].config_key].created))

\* C5: a Create on a key that already has a record fails with 409, leaves the
\* record equal to its previous value v1, and a following Read returns v1.
C5_CreateConflict ==
    \A p \in Procs :
        /\ (Done(p, "POST") /\ Sequential(p) /\ log[p].existed)
           => /\ resp[p].statusCode = 409
              /\ table[req[p].config_key] = expected[req[p].config_key].created
        /\ (/\ Done(p, "GET")
            /\ Sequential(p)
            /\ conflict[req[p].config_key]
            /\ \/ log[p].cacheGot = "value"
               \/ log[p].cacheGot = "absent" /\ log[p].setOutcome \in {"True", "False"})
           => /\ resp[p].statusCode = 200
              /\ PyEqual(resp[p].value, Deserialize(expected[req[p].config_key].created))

\* C6: an Update (with a non-empty patch) on a key that has no record fails with
\* 404 and creates no record.
C6_UpdateAbsentKey ==
    \A p \in Procs :
        (/\ Done(p, "PATCH")
         /\ Sequential(p)
         /\ ~log[p].existed
         /\ DOMAIN req[p].config_value[2] /= {})
        => /\ resp[p].statusCode = 404
           /\ table[req[p].config_key] = NoItem

\* C7: with the cache unreachable, a Create of a new key, a Read of an existing
\* key and an Update of an existing key return 200, as with a healthy cache,
\* with stored_in_valkey false, source dynamodb and updated_in_valkey false.
C7_CacheOutageTransparent ==
    \A p \in Procs :
        log[p].outage =>
            /\ (Done(p, "POST") /\ log[p].durableOk)
               => resp[p].statusCode = 200 /\ ~resp[p].in_valkey
            /\ (Done(p, "GET") /\ Sequential(p) /\ log[p].existed)
               => resp[p].statusCode = 200 /\ resp[p].source = "dynamodb"
            /\ (/\ Done(p, "PATCH")
                /\ Sequential(p)
                /\ log[p].existed
                /\ DOMAIN req[p].config_value[2] /= {})
               => resp[p].statusCode = 200 /\ ~resp[p].in_valkey

\* C8: a Read that misses the cache and finds the record in the table answers
\* 200 with the table's value and source dynamodb, whatever happens to the
\* repopulating store_to_valkey (success, failure, timeout, raised error).
C8_RepopulationNeverChangesResponse ==
    \A p \in Procs :
        (Done(p, "GET") /\ log[p].cacheGot = "absent" /\ item[p] /= NoItem)
        => /\ resp[p].statusCode = 200
           /\ resp[p].source = "dynamodb"
           /\ PyEqual(resp[p].value, Deserialize(item[p]))

\* C9: in Create and Update no cache operation is issued before the durable
\* write returned success, and none at all when it was refused or failed; in
\* Read the cache Get comes first and the table is read only after the cache
\* Get returned absence.
C9_StepOrder ==
    \A p \in Procs :
        /\ req[p].method \in {"POST", "PATCH"} =>
              /\ log[p].cacheIssued => log[p].durableOk
              /\ log[p].durableFail => ~log[p].cacheIssued /\ log[p].setOutcome = ""
        /\ req[p].method = "GET" =>
              /\ log[p].tableGet => log[p].cacheGot = "absent"
              /\ log[p].cacheGot /= "" => log[p].cacheIssued
              /\ log[p].setOutcome /= "" => log[p].tableGet
\* A Create wrote the cache after its put_item, and a Read went to the table
\* after a cache miss.
C9_Witness ==
    \E p, q \in Procs :
        /\ Done(p, "POST") /\ log[p].durableOk /\ log[p].setOutcome = "True"
        /\ Done(q, "GET") /\ log[q].cacheGot = "absent" /\ log[q].tableGet

C12_SelfHealing ==
    \A p \in Procs :
        (Done(p, "GET") /\ Sequential(p) /\ log[p].existed) =>
            LET k == req[p].config_key IN
            /\ (log[p].cacheMiss /\ log[p].cacheGot = "absent") =>
                  /\ resp[p].statusCode = 200
                  /\ resp[p].source = "dynamodb"
                  /\ PyEqual(resp[p].value, Deserialize(table[k]))
                  /\ log[p].setOutcome = "True" =>
                        valkey[k] /= NoEntry /\ PyEqual(Cached(k), Deserialize(table[k]))
            /\ log[p].cacheGot = "value" =>
                  /\ resp[p].statusCode = 200
                  /\ resp[p].source = "valkey"
                  /\ PyEqual(resp[p].value, Deserialize(table[k]))

\* C13: the cache Get of a Read ends in a value or in absence, never in an
\* error of the request, whatever the cache does (connection failure, timeout,
\* transport error); on absence the Read goes to the table, and it answers 404
\* exactly when the cache Get reported absence and the table holds no record.
C13_AbsenceOnEveryCacheFailure ==
    \A p \in Procs :
        (Done(p, "GET") /\ log[p].cacheIssued) =>
            /\ log[p].cacheGot \in {"value", "absent"}
            /\ log[p].cacheGot = "absent" => log[p].tableGet
            /\ resp[p].statusCode = 404 <=>
                  /\ log[p].cacheGot = "absent"
                  /\ log[p].tableGet
                  /\ ~log[p].tableError
                  /\ item[p] = NoItem

\* C14: a request with missing or malformed input (a body that is not JSON, a
\* POST without config_key or config_value, a PATCH without config_key or with
\* a config_value that is not a mapping, a GET without config_key whether its
\* query-parameter map is empty, null or absent) is answered 400 and calls
\* neither the table nor the cache.
C14_MalformedInputRejected ==
    \A p \in Procs :
        log[p].malformed =>
            /\ pc[p] = "done"
            /\ resp[p].statusCode = 400
            /\ ~log[p].cacheIssued
            /\ ~log[p].tableGet
            /\ ~log[p].durableOk
            /\ ~log[p].durableFail

\* C15: in every Create or Update response that reports the durable write
\* (200 or 207) the durable flag is true and the write was made, and the cache
\* flag is true exactly when the client.set of that request was answered by
\* the server; it is false for a Set that failed, timed out or was not issued.
C15_FlagsReportTheSet ==
    \A p \in Procs :
        (/\ pc[p] = "done"
         /\ req[p].method \in {"POST", "PATCH"}
         /\ resp[p].statusCode \in {200, 207})
        => /\ resp[p].in_dynamodb
           /\ log[p].durableOk
           /\ resp[p].in_valkey <=> log[p].setAcked
           /\ resp[p].in_valkey => log[p].cacheIssued
\* A Create whose Set failed or timed out after the record was stored reports
\* the cache flag false.
C15_Witness ==
    \E p \in Procs :
        /\ Done(p, "POST")
        /\ resp[p].statusCode = 207
        /\ ~resp[p].in_valkey
        /\ log[p].cacheIssued
        /\ table[req[p].config_key] /= NoItem

C17_StatusDecidedByDurablePhase ==
    \A p \in Procs :
        (/\ pc[p] = "done"
         /\ req[p].method \in {"POST", "PATCH"}
         /\ resp[p].statusCode >= 400)
        => /\ ~log[p].durableOk
           /\ log[p].durableFail
           /\ ~log[p].cacheIssued

\* C18: of two concurrent Creates of the same key, both issued while the key
\* had no record and both served by the table, exactly one succeeds (200 or
\* 207) and the other is answered 409; the table then holds the value of the
\* one that succeeded, and the other has issued no cache operation.
C18_AtomicConditionalCreate ==
    \A p, q \in Procs :
        (/\ p /= q
         /\ Done(p, "POST") /\ Done(q, "POST")
         /\ req[p].config_key = req[q].config_key
         /\ ~log[p].existed /\ ~log[q].existed
         /\ ~log[p].tableError /\ ~log[q].tableError)
        => \E w \in {p, q} :
              LET other == CHOOSE l \in {p, q} : l /= w IN
              /\ log[w].durableOk
              /\ resp[w].statusCode \in {200, 207}
              /\ resp[other].statusCode = 409
              /\ table[req[w].config_key] = Serialize(req[w].config_value)
              /\ ~log[other].cacheIssued

C20_EmptyPatchIsIdentity ==
    \A p \in Procs :
        (/\ Done(p, "PATCH")
         /\ Sequential(p)
         /\ log[p].existed
         /\ DOMAIN req[p].config_value[2] = {})
        => LET k == req[p].config_key IN
           /\ table[k] = expected[k].merged
           /\ ~log[p].durableFail
           /\ resp[p].statusCode \in {200, 207}
           /\ resp[p].in_dynamodb
           /\ log[p].setAcked =>
                 valkey[k] /= NoEntry /\ PyEqual(Cached(k), Deserialize(table[k]))
====
